---- MODULE Spec2Model ----
(***************************************************************************)
(* ShopStream billing testbed (src/app.py): the monitor_guard context      *)
(* manager, the three guarded operations, the batch runner, the            *)
(* transaction query and the manual void, over an opaque record store.     *)
(*                                                                         *)
(* One script run is single threaded: a handler runs to completion before  *)
(* the next UI event.  The store and the client factory are an external    *)
(* collaborator: every call to them either succeeds or raises, chosen by   *)
(* the environment (the clientOk / insertOk / execOk inputs).              *)
(* Time is counted in ticks of half a second; every guarded body sleeps    *)
(* at least one tick before the guard exits.                               *)
(***************************************************************************)
EXTENDS Integers, Sequences, FiniteSets, TLC

\* ---------------------------------------------------------------- bounds
MaxOps == 2      \* guarded invocations per behaviour (uuid4 calls)
MaxBatch == 2    \* largest batch size tried (slider allows 1..20)
MaxLimit == 2    \* largest fetch limit tried

\* ------------------------------------------------------------- constants
Entities == {"Test Shop A", "Test Shop B", "Test Shop C"}
Products == {"listing", "smart_copy", "brand_guard"}
Statuses == {"PROVISIONAL", "VOIDED"}

NoExc == "none"
ClientError == "init_supabase failed"
NoGuard == [transaction_id |-> 0]
NoBatch == [count |-> 0, i |-> 0, success_count |-> 0, failure_count |-> 0, calls |-> 0]
NoCall == [mode |-> "none"]
NoLast == [op |-> "none"]

\* revenue_potential in cents: 0.10, 1.00, 5.00
Price(product_key) ==
  CASE product_key = "listing" -> 10
    [] product_key = "smart_copy" -> 100
    [] product_key = "brand_guard" -> 500

\* time.sleep of the body in half-second ticks: 0.5, 1.5, 2.0
SleepTicks(product_key) ==
  CASE product_key = "listing" -> 1
    [] product_key = "smart_copy" -> 3
    [] product_key = "brand_guard" -> 4

\* the exception a body raises when force_failure is set
BodyError(product_key) ==
  CASE product_key = "listing" -> "Forced failure during product listing creation"
    [] product_key = "smart_copy" -> "Forced failure during smart copy generation"
    [] product_key = "brand_guard" -> "Forced failure during brand safety check"

BodyErrors == {BodyError(p) : p \in Products}

\* datetime.utcnow().isoformat(): seconds and microseconds of the instant
IsoFormat(t) == [sec |-> t \div 2, usec |-> (t % 2) * 500000]

\* order of two created_at values as the store compares them
IsoLess(a, b) == \/ a.sec < b.sec
                 \/ a.sec = b.sec /\ a.usec < b.usec

Min(a, b) == IF a < b THEN a ELSE b

VARIABLES
  store,       \* table "transactions": rows in insertion order
  nextId,      \* uuid4 generator: the next fresh identifier
  clock,       \* current UTC time in ticks
  pc,          \* position of the running script
  call,        \* arguments of the guarded operation being executed
  guard,       \* the monitor_guard instance of the current invocation
  raised,      \* exception the body raised (exc_val given to __exit__)
  propagated,  \* exception leaving the operation towards its caller
  observed,    \* what main's try/except saw for a single operation
  batch,       \* locals of run_batch_operations
  fetched,     \* value returned by fetch_recent_transactions
  reported,    \* messages surfaced to the operator by the current handler
  last,        \* the handler call that completed last, with its inputs
  history      \* completed guarded invocations, in order

vars == <<store, nextId, clock, pc, call, guard, raised, propagated,
          observed, batch, fetched, reported, last, history>>

\* ------------------------------------------------------------ the guard

\* mutant: the guard reuses the identifier of the previous invocation
NewTransactionId_Stale(n) == IF n > 1 THEN n - 1 ELSE n

\* uuid.uuid4(): a fresh identifier
NewTransactionId(n) == n

\* monitor_guard.__init__ up to the client creation
NewGuard(entity_id, product_key, id, client) ==
  [entity_id |-> entity_id, product_key |-> product_key,
   revenue_potential |-> Price(product_key), transaction_id |-> id,
   exception_occurred |-> FALSE, supabase |-> client]

\* mutant: the two branches of the status decision are swapped
ExitStatus_Swapped(exc) == IF exc # NoExc THEN "PROVISIONAL" ELSE "VOIDED"

\* __exit__: status decided from exc_type
ExitStatus(exc) == IF exc # NoExc THEN "VOIDED" ELSE "PROVISIONAL"

\* mutant: __exit__ returns True and swallows the exception
ExitReturn_Suppress == TRUE

\* __exit__: return value (False: do not suppress)
ExitReturn == FALSE

\* _log_transaction: the row built from the guard
Transaction(g, status, now) ==
  [id |-> g.transaction_id, entity_id |-> g.entity_id,
   product_key |-> g.product_key, status |-> status,
   revenue |-> g.revenue_potential, created_at |-> IsoFormat(now)]

\* table.insert(row).execute()
Insert(rows, row) == Append(rows, row)

\* mutant: the update writes the other status
VoidUpdate_Provisional == "PROVISIONAL"

\* void_transaction: the fields the update sets
VoidUpdate == "VOIDED"

\* mutant: the update is an upsert that adds a row when none matches
Update_Upsert(rows, id) ==
  IF \E k \in DOMAIN rows : rows[k].id = id
  THEN [k \in DOMAIN rows |->
          IF rows[k].id = id THEN [rows[k] EXCEPT !.status = VoidUpdate]
          ELSE rows[k]]
  ELSE Append(rows, [id |-> id, entity_id |-> "", product_key |-> "",
                     status |-> VoidUpdate, revenue |-> 0,
                     created_at |-> IsoFormat(0)])

\* mutant: the eq("id", ...) filter is missing
Update_NoFilter(rows, id) ==
  [k \in DOMAIN rows |-> [rows[k] EXCEPT !.status = VoidUpdate]]

\* table.update(fields).eq("id", id).execute()
Update(rows, id) ==
  [k \in DOMAIN rows |->
     IF rows[k].id = id THEN [rows[k] EXCEPT !.status = VoidUpdate] ELSE rows[k]]

\* mutant: the order is ascending
RECURSIVE OrderDesc_Ascending(_, _)
OrderDesc_Ascending(rows, idx) ==
  IF idx = {} THEN <<>>
  ELSE LET m == CHOOSE k \in idx :
                  \A q \in idx : ~IsoLess(rows[q].created_at, rows[k].created_at)
       IN <<rows[m]>> \o OrderDesc_Ascending(rows, idx \ {m})

\* table.select("*").order("created_at", desc=True)
RECURSIVE OrderDesc(_, _)
OrderDesc(rows, idx) ==
  IF idx = {} THEN <<>>
  ELSE LET m == CHOOSE k \in idx :
                  \A q \in idx : ~IsoLess(rows[k].created_at, rows[q].created_at)
       IN <<rows[m]>> \o OrderDesc(rows, idx \ {m})

\* .limit(n)
Limit(rows, n) == SubSeq(rows, 1, Min(n, Len(rows)))

\* the query of fetch_recent_transactions
Select(rows, n) == Limit(OrderDesc(rows, DOMAIN rows), n)

\* mutant: the except branch re-raises
FetchOnError_Raises == [result |-> <<>>, raises |-> TRUE]

\* fetch_recent_transactions: the except branch returns [] and does not raise
FetchOnError == [result |-> <<>>, raises |-> FALSE]

QueryError == "query failed"

\* mutant: the except branch forgets to count the failure
BatchTally_NoFailureCount(b, exc) ==
  IF exc = NoExc
  THEN [b EXCEPT !.success_count = @ + 1, !.i = @ + 1]
  ELSE [b EXCEPT !.i = @ + 1]

\* run_batch_operations: the try/except around one iteration
BatchTally(b, exc) ==
  IF exc = NoExc
  THEN [b EXCEPT !.success_count = @ + 1, !.i = @ + 1]
  ELSE [b EXCEPT !.failure_count = @ + 1, !.i = @ + 1]

\* ----------------------------------------------------------------- Init
Init ==
  /\ store = <<>>
  /\ nextId = 1
  /\ clock = 0
  /\ pc = "idle"
  /\ call = NoCall
  /\ guard = NoGuard
  /\ raised = NoExc
  /\ propagated = NoExc
  /\ observed = NoExc
  /\ batch = NoBatch
  /\ fetched = <<>>
  /\ reported = {}
  /\ last = NoLast
  /\ history = <<>>

\* -------------------------------------------------------------- actions

\* main: one of the three operation buttons
ClickOperation(product_key, entity_id, force_failure) ==
  /\ pc = "idle"
  /\ nextId <= MaxOps
  /\ pc' = "call"
  /\ call' = [mode |-> "single", product_key |-> product_key,
              entity_id |-> entity_id, force_failure |-> force_failure]
  /\ guard' = NoGuard
  /\ raised' = NoExc
  /\ propagated' = NoExc
  /\ observed' = NoExc
  /\ batch' = NoBatch
  /\ fetched' = <<>>
  /\ reported' = {}
  /\ last' = NoLast
  /\ UNCHANGED <<store, nextId, clock, history>>

\* main: one of the three batch buttons; run_batch_operations up to the loop
ClickBatch(product_key, entity_id, count, force_failure) ==
  /\ pc = "idle"
  /\ nextId + count - 1 <= MaxOps
  /\ pc' = "batch_loop"
  /\ call' = [mode |-> "batch", product_key |-> product_key,
              entity_id |-> entity_id, force_failure |-> force_failure]
  /\ batch' = [count |-> count, i |-> 0, success_count |-> 0,
               failure_count |-> 0, calls |-> 0]
  /\ guard' = NoGuard
  /\ raised' = NoExc
  /\ propagated' = NoExc
  /\ observed' = NoExc
  /\ fetched' = <<>>
  /\ reported' = {}
  /\ last' = NoLast
  /\ UNCHANGED <<store, nextId, clock, history>>

\* run_batch_operations: the loop takes the next i and calls the operation
BatchIterate ==
  /\ pc = "batch_loop"
  /\ batch.i < batch.count
  /\ pc' = "call"
  /\ batch' = [batch EXCEPT !.calls = @ + 1]
  /\ guard' = NoGuard
  /\ raised' = NoExc
  /\ propagated' = NoExc
  /\ UNCHANGED <<store, nextId, clock, call, observed, fetched, reported,
                 last, history>>

\* run_batch_operations: the loop is exhausted, the tally is shown
BatchComplete ==
  /\ pc = "batch_loop"
  /\ batch.i = batch.count
  /\ pc' = "idle"
  /\ reported' = reported \cup {"batch_complete"}
  /\ last' = [op |-> "batch", count |-> batch.count,
              force_failure |-> call.force_failure]
  /\ call' = NoCall
  /\ UNCHANGED <<store, nextId, clock, guard, raised, propagated, observed,
                 batch, fetched, history>>

\* monitor_guard.__init__: the id is generated, then the client is created
GuardInit(clientOk) ==
  /\ pc = "call"
  /\ LET id == NewTransactionId(nextId)
         g == NewGuard(call.entity_id, call.product_key, id, clientOk)
     IN /\ nextId' = nextId + 1
        /\ guard' = g
        /\ IF clientOk
           THEN /\ pc' = "constructed"
                /\ UNCHANGED <<propagated, history>>
           ELSE /\ pc' = "returned"
                /\ propagated' = ClientError
                /\ history' = Append(history,
                     [id |-> id, constructed |-> FALSE, persistOk |-> FALSE])
  /\ UNCHANGED <<store, clock, call, raised, observed, batch, fetched,
                 reported, last>>

\* monitor_guard.__enter__
GuardEnter ==
  /\ pc = "constructed"
  /\ pc' = "entered"
  /\ reported' = reported \cup {"tracking_started"}
  /\ UNCHANGED <<store, nextId, clock, call, guard, raised, propagated,
                 observed, batch, fetched, last, history>>

\* the body of the with statement: sleep, then raise or report success
Body ==
  /\ pc = "entered"
  /\ pc' = "exiting"
  /\ clock' = clock + SleepTicks(call.product_key)
  /\ IF call.force_failure
     THEN /\ raised' = BodyError(call.product_key)
          /\ UNCHANGED reported
     ELSE /\ raised' = NoExc
          /\ reported' = reported \cup {"op_success"}
  /\ UNCHANGED <<store, nextId, call, guard, propagated, observed, batch,
                 fetched, last, history>>

\* monitor_guard.__exit__ with _log_transaction
GuardExit(insertOk) ==
  /\ pc = "exiting"
  /\ LET status == ExitStatus(raised)
     IN IF insertOk
        THEN /\ store' = Insert(store, Transaction(guard, status, clock))
             /\ UNCHANGED reported
        ELSE /\ reported' = reported \cup {"log_failed"}
             /\ UNCHANGED store
  /\ propagated' = IF ExitReturn THEN NoExc ELSE raised
  /\ history' = Append(history,
       [id |-> guard.transaction_id, constructed |-> TRUE,
        persistOk |-> insertOk])
  /\ pc' = "returned"
  /\ UNCHANGED <<nextId, clock, call, guard, raised, observed, batch,
                 fetched, last>>

\* main: the try/except around a single operation
ReturnToMain ==
  /\ pc = "returned"
  /\ call.mode = "single"
  /\ pc' = "idle"
  /\ observed' = propagated
  /\ reported' = IF propagated # NoExc THEN reported \cup {"op_failed"}
                 ELSE reported
  /\ last' = [op |-> "operation", force_failure |-> call.force_failure]
  /\ call' = NoCall
  /\ UNCHANGED <<store, nextId, clock, guard, raised, propagated, batch,
                 fetched, history>>

\* run_batch_operations: the try/except around one iteration
ReturnToBatch ==
  /\ pc = "returned"
  /\ call.mode = "batch"
  /\ pc' = "batch_loop"
  /\ batch' = BatchTally(batch, propagated)
  /\ reported' = IF propagated # NoExc THEN reported \cup {"batch_warning"}
                 ELSE reported
  /\ UNCHANGED <<store, nextId, clock, call, guard, raised, propagated,
                 observed, fetched, last, history>>

\* fetch_recent_transactions
FetchRecentTransactions(limit, clientOk, execOk) ==
  /\ pc = "idle"
  /\ IF clientOk /\ execOk
     THEN /\ fetched' = Select(store, limit)
          /\ reported' = {}
          /\ propagated' = NoExc
     ELSE /\ fetched' = FetchOnError.result
          /\ reported' = {"fetch_failed"}
          /\ propagated' = IF FetchOnError.raises THEN QueryError ELSE NoExc
  /\ last' = [op |-> "fetch", limit |-> limit, ok |-> clientOk /\ execOk]
  /\ guard' = NoGuard
  /\ raised' = NoExc
  /\ observed' = NoExc
  /\ batch' = NoBatch
  /\ UNCHANGED <<store, nextId, clock, pc, call, history>>

\* ids an operator can pass to void_transaction: every issued id and one
\* that matches no record
VoidIds == 1..nextId

\* void_transaction
VoidTransaction(transaction_id, clientOk, execOk) ==
  /\ pc = "idle"
  /\ transaction_id \in VoidIds
  /\ IF clientOk /\ execOk
     THEN /\ store' = Update(store, transaction_id)
          /\ reported' = {"void_ok"}
     ELSE /\ UNCHANGED store
          /\ reported' = {"void_failed"}
  /\ last' = [op |-> "void", id |-> transaction_id, ok |-> clientOk /\ execOk,
              was |-> {store[k].status :
                         k \in {j \in DOMAIN store : store[j].id = transaction_id}}]
  /\ guard' = NoGuard
  /\ raised' = NoExc
  /\ propagated' = NoExc
  /\ observed' = NoExc
  /\ batch' = NoBatch
  /\ fetched' = <<>>
  /\ UNCHANGED <<nextId, clock, pc, call, history>>

Next ==
  \/ \E p \in Products, e \in Entities, f \in BOOLEAN : ClickOperation(p, e, f)
  \/ \E p \in Products, e \in Entities, n \in 1..MaxBatch, f \in BOOLEAN :
       ClickBatch(p, e, n, f)
  \/ BatchIterate
  \/ BatchComplete
  \/ \E c \in BOOLEAN : GuardInit(c)
  \/ GuardEnter
  \/ Body
  \/ \E ok \in BOOLEAN : GuardExit(ok)
  \/ ReturnToMain
  \/ ReturnToBatch
  \/ \E n \in 1..MaxLimit, c \in BOOLEAN, x \in BOOLEAN :
       FetchRecentTransactions(n, c, x)
  \/ \E id \in 1..(MaxOps + 1), c \in BOOLEAN, x \in BOOLEAN :
       VoidTransaction(id, c, x)

Spec == Init /\ [][Next]_vars

\* ------------------------------------------------------------ properties

RowsWithId(rows, id) == {j \in DOMAIN rows : rows[j].id = id}

\* a step that is a call of void_transaction(last'.id); last'.ok tells whether
\* the client creation and the update both succeeded
VoidStep == pc = "idle" /\ pc' = "idle" /\ last'.op = "void"

\* a step that is a call of fetch_recent_transactions(last'.limit)
FetchStep == pc = "idle" /\ pc' = "idle" /\ last'.op = "fetch"

HistoryIds == {history[k].id : k \in DOMAIN history}

\* C1 (as claimed): once no invocation is in progress, every guarded
\* invocation whose guard was constructed has exactly one record in the
\* store carrying its id.
C1_ExactlyOneRecord ==
  pc = "idle" =>
    \A k \in DOMAIN history :
      history[k].constructed =>
        Cardinality(RowsWithId(store, history[k].id)) = 1

\* C1 (amended): every invocation has at most one record, never two; it has
\* exactly one when the guard's client was created and its insert succeeded;
\* every record carries the id of one invocation and the ids of different
\* invocations are pairwise distinct.
C1_AtMostOneRecord ==
  /\ \A k \in DOMAIN history :
       /\ Cardinality(RowsWithId(store, history[k].id)) <= 1
       /\ history[k].persistOk =>
            Cardinality(RowsWithId(store, history[k].id)) = 1
  /\ \A j \in DOMAIN store : store[j].id \in HistoryIds
  /\ \A k1, k2 \in DOMAIN history : k1 # k2 => history[k1].id # history[k2].id

C1_Witness ==
  /\ pc = "idle"
  /\ Len(history) = 2
  /\ history[1].persistOk
  /\ history[2].constructed
  /\ ~history[2].persistOk
  /\ Len(store) = 1
  /\ store[1].id = history[1].id

\* C2: when a guarded operation has returned, the record written for it has
\* status PROVISIONAL if the body did not raise and VOIDED if it raised, and
\* no record has any other status.
C2_StatusMatchesOutcome ==
  /\ \A j \in DOMAIN store : store[j].status \in Statuses
  /\ pc = "returned" =>
       \A j \in RowsWithId(store, guard.transaction_id) :
         /\ raised = NoExc => store[j].status = "PROVISIONAL"
         /\ raised # NoExc => store[j].status = "VOIDED"

C2_Witness ==
  /\ pc = "returned"
  /\ raised \in BodyErrors
  /\ Len(store) = 2
  /\ store[1].status = "PROVISIONAL"
  /\ store[2].id = guard.transaction_id
  /\ store[2].status = "VOIDED"

\* C3: when the body raised, the error leaving the guarded operation is the
\* body's error, and main's handler observes and reports that same error,
\* whether or not the log write succeeded.
C3_BodyErrorPropagates ==
  /\ (pc = "returned" /\ raised # NoExc) => propagated = raised
  /\ (pc = "idle" /\ last.op = "operation" /\ raised # NoExc) =>
       /\ observed = raised
       /\ "op_failed" \in reported

C3_Witness ==
  /\ pc = "idle"
  /\ last.op = "operation"
  /\ raised \in BodyErrors
  /\ "log_failed" \in reported
  /\ observed = raised
  /\ store = <<>>

\* C4 (as claimed): a persistence failure never leaves the guard: what the
\* caller of a guarded operation sees is the body's own outcome, success when
\* the body does not raise and the body's error when it does.
C4_PersistenceFailureIsolated ==
  pc = "returned" =>
    propagated = IF call.force_failure THEN BodyError(call.product_key)
                 ELSE NoExc

\* C5: a record that is VOIDED is VOIDED after every step.
C5_VoidedStaysVoided ==
  [][\A j \in DOMAIN store : \A k \in DOMAIN store' :
       (store[j].status = "VOIDED" /\ store'[k].id = store[j].id)
         => store'[k].status = "VOIDED"]_vars

C5_Witness ==
  /\ last.op = "void"
  /\ last.ok
  /\ last.was = {"VOIDED"}
  /\ Len(store) = 2
  /\ store[1].id = last.id
  /\ store[1].status = "VOIDED"
  /\ store[2].status = "PROVISIONAL"

\* C6: during a batch the tallies add up to the iterations run, and when the
\* batch is complete the operation ran count times and the tallies add up to
\* count; with the failure flag set every iteration is a failure.
C6_BatchCounts ==
  /\ pc = "batch_loop" =>
       /\ batch.success_count + batch.failure_count = batch.i
       /\ batch.calls = batch.i
       /\ batch.i <= batch.count
  /\ last.op = "batch" =>
       /\ batch.calls = last.count
       /\ batch.success_count + batch.failure_count = last.count
       /\ last.force_failure =>
            /\ batch.success_count = 0
            /\ batch.failure_count = last.count

C6_Witness ==
  /\ last.op = "batch"
  /\ last.force_failure
  /\ last.count >= 2
  /\ batch.failure_count = last.count
  /\ Len(store) = last.count

\* C7 (as claimed): after void_transaction(id) the record with that id is
\* VOIDED and no error is reported.
C7_VoidAlwaysSucceeds ==
  last.op = "void" =>
    /\ "void_failed" \notin reported
    /\ \A j \in RowsWithId(store, last.id) : store[j].status = "VOIDED"

\* C7 (amended): when the client is created and the update succeeds,
\* void_transaction(id) leaves every record with that id VOIDED whatever its
\* status was, reports success and no error (also on a repeated call and for
\* an id that matches no record) and adds no record; when the store call
\* fails the failure is reported and the store is unchanged.
C7_VoidIdempotent ==
  [][VoidStep =>
       /\ last'.ok =>
            /\ Len(store') = Len(store)
            /\ \A j \in RowsWithId(store', last'.id) : store'[j].status = "VOIDED"
            /\ reported' = {"void_ok"}
            /\ propagated' = NoExc
       /\ ~last'.ok =>
            /\ store' = store
            /\ "void_failed" \in reported'
            /\ propagated' = NoExc]_vars

C7_Witness ==
  /\ last.op = "void"
  /\ last.ok
  /\ last.was = {"VOIDED"}
  /\ reported = {"void_ok"}
  /\ \E j \in DOMAIN store : store[j].id = last.id /\ store[j].status = "VOIDED"

\* C8: void_transaction(id) adds and deletes no record, leaves every record
\* with another id as it was, and changes no field but status of the record
\* with that id.
C8_VoidFrame ==
  [][VoidStep =>
       /\ DOMAIN store' = DOMAIN store
       /\ \A j \in DOMAIN store :
            /\ store[j].id # last'.id => store'[j] = store[j]
            /\ store'[j].id = store[j].id
            /\ store'[j].entity_id = store[j].entity_id
            /\ store'[j].product_key = store[j].product_key
            /\ store'[j].revenue = store[j].revenue
            /\ store'[j].created_at = store[j].created_at]_vars

C8_Witness ==
  /\ last.op = "void"
  /\ last.ok
  /\ last.was = {"PROVISIONAL"}
  /\ Len(store) = 2
  /\ store[2].id = last.id
  /\ store[2].status = "VOIDED"
  /\ store[1].status = "PROVISIONAL"

\* C9: a fetch that succeeds returns min(limit, k) records of the k stored,
\* newest first, every record left out being older than every record
\* returned, and leaves the store unchanged.
C9_FetchMostRecent ==
  [][(FetchStep /\ last'.ok) =>
       /\ store' = store
       /\ propagated' = NoExc
       /\ Len(fetched') = Min(last'.limit, Len(store))
       /\ \A a \in DOMAIN fetched' : \E j \in DOMAIN store : fetched'[a] = store[j]
       /\ \A a, b \in DOMAIN fetched' :
            a < b => IsoLess(fetched'[b].created_at, fetched'[a].created_at)
       /\ \A j \in DOMAIN store :
            (\A a \in DOMAIN fetched' : fetched'[a] # store[j]) =>
              \A a \in DOMAIN fetched' :
                IsoLess(store[j].created_at, fetched'[a].created_at)]_vars

C9_Witness ==
  /\ last.op = "fetch"
  /\ last.ok
  /\ last.limit = 1
  /\ Len(store) = 2
  /\ fetched = <<store[2]>>

\* C10: a fetch during which the client creation or the query fails reports
\* the error, returns the empty list, raises nothing and leaves the store
\* unchanged.
C10_FetchFailureIsolated ==
  [][(FetchStep /\ ~last'.ok) =>
       /\ fetched' = <<>>
       /\ "fetch_failed" \in reported'
       /\ propagated' = NoExc
       /\ store' = store]_vars

C10_Witness ==
  /\ last.op = "fetch"
  /\ ~last.ok
  /\ Len(store) > 0
  /\ fetched = <<>>
  /\ reported = {"fetch_failed"}

====
